---- MODULE Spec2Model ----
(***************************************************************************)
(* ffsuspend: SIGSTOP/SIGCONT programs whose windows are on no visible i3  *)
(* workspace.  Model of ProcessManager and Manager of ffsuspend.py.        *)
(***************************************************************************)
EXTENDS Integers, Sequences, FiniteSets, TLC

VARIABLES
    pc,                     \* position of the main thread
    enable_clibboard_checking,
    workspace_by_output,    \* Manager.workspace_by_output (dict output -> name)
    last_clip,              \* Manager.last_clip ("None" or a content)
    pid_list,               \* per tracker: ProcessManager.pid_list
    xwid_list,              \* per tracker: ProcessManager.xwid_list
    monitored_workspaces,   \* per tracker: ProcessManager.monitored_workspaces
    state,                  \* per tracker: ProcessManager.state
    inhibit,                \* per tracker: ProcessManager.inhibit
    wAlive,                 \* environment: PIDs that `ps ax` lists
    wWin,                   \* environment: window id -> workspace holding it, or NoWs
    ev,                     \* the event (or call) processed by the last step
    log,                    \* the calls made by the last step, in order
    lastSig,                \* per tracker: last control signal issued ("none" at first)
    exitReason,             \* why the event loop was left
    clipKept,               \* history: trackers that a focus event with a changed
                            \* clipboard found visible before and after the focus,
                            \* and whose visibility has not disappeared since
    nEvents,                \* events read from the subscription so far
    nEnv                    \* environment changes so far

vars == <<pc, enable_clibboard_checking, workspace_by_output, last_clip,
          pid_list, xwid_list, monitored_workspaces, state, inhibit,
          wAlive, wWin, ev, log, lastSig, exitReason, clipKept, nEvents, nEnv>>

progVars == <<workspace_by_output, last_clip, pid_list, xwid_list,
              monitored_workspaces, state, inhibit>>

worldVars == <<wAlive, wWin>>

\* ------------------------------------------------------------------ bounds
MaxEvents == 2
MaxEnvSteps == 1

\* ------------------------------------------------------- the small universe
ProcessNames == <<"firefox", "thunderbird">>
Trackers == DOMAIN ProcessNames
Pids == {1, 2}
NameOf == [p \in Pids |-> ProcessNames[p]]
Windows == {11, 21}
PidOf == [w \in Windows |-> IF w = 21 THEN 2 ELSE 1]
Workspaces == {"1", "3"}
Outputs == {"HDMI-1", "eDP-1"}
Clips == {"a", "b"}
NoWs == "none"
None == "None"

STOPPED == "STOPPED"
RUNNING == "RUNNING"

\* dicts output -> workspace name, any subset of the outputs as keys
Registries == UNION {[D -> Workspaces] : D \in SUBSET Outputs}

\* what `i3-msg -t get_workspaces` can report as visible: at least one output
\* is active, and a workspace is shown on one output only
Snapshots == {d \in Registries :
                 /\ DOMAIN d # {}
                 /\ \A o1, o2 \in DOMAIN d : d[o1] = d[o2] => o1 = o2}

Values(d) == {d[k] : k \in DOMAIN d}

\* a window exists only while its process does
WorldOK(alive, win) == \A w \in Windows : win[w] # NoWs => PidOf[w] \in alive

\* ------------------------------------------------------------ log entries
Entry(op, t, tgt, pre, preInh, st, inh, ok) ==
    [op |-> op, t |-> t, tgt |-> tgt, pre |-> pre, preInh |-> preInh,
     st |-> st, inh |-> inh, ok |-> ok]

\* ------------------------------------------------------- topology queries
get_process_ids(process_name) == {p \in wAlive : NameOf[p] = process_name}

get_xwindows_for_pid(pid) == {w \in Windows : PidOf[w] = pid /\ wWin[w] # NoWs}

get_workspaces_for_xwindows(xwids) ==
    {ws \in Workspaces : \E w \in Windows : wWin[w] = ws /\ w \in xwids}

\* --------------------------------------------------------- ProcessManager
Tracker(t) ==
    [pid_list |-> pid_list[t], xwid_list |-> xwid_list[t],
     monitored_workspaces |-> monitored_workspaces[t],
     state |-> state[t], inhibit |-> inhibit[t]]

\* variant: looks the names up among the keys of the dict, not its values
get_target_state_Keys(mws, reg) ==
    IF \E name \in mws : name \in DOMAIN reg THEN RUNNING ELSE STOPPED

get_target_state(mws, reg) ==
    IF \E name \in mws : name \in Values(reg) THEN RUNNING ELSE STOPPED

\* killall -g exits non-zero when no process of that name exists
killall(t) == get_process_ids(ProcessNames[t]) # {}

\* variant: the assignment is inside the try block, skipped when killall fails
send_stop_KeepsStateOnFailure(tr, t) ==
    [tr  |-> IF killall(t) THEN [tr EXCEPT !.state = STOPPED] ELSE tr,
     raised |-> FALSE,
     log |-> <<Entry("stop", t, "-", tr.state, tr.inhibit,
                     IF killall(t) THEN STOPPED ELSE tr.state, tr.inhibit, killall(t))>>]

\* variant: the CalledProcessError is not caught
send_stop_Raises(tr, t) ==
    [tr  |-> IF killall(t) THEN [tr EXCEPT !.state = STOPPED] ELSE tr,
     raised |-> ~killall(t),
     log |-> <<Entry("stop", t, "-", tr.state, tr.inhibit,
                     IF killall(t) THEN STOPPED ELSE tr.state, tr.inhibit, killall(t))>>]

\* the CalledProcessError of a failed killall is caught: nothing is raised
send_stop(tr, t) ==
    [tr  |-> [tr EXCEPT !.state = STOPPED],
     raised |-> FALSE,
     log |-> <<Entry("stop", t, "-", tr.state, tr.inhibit, STOPPED, tr.inhibit, killall(t))>>]

\* variant: the assignment is inside the try block, skipped when killall fails
send_cont_KeepsStateOnFailure(tr, t) ==
    [tr  |-> IF killall(t) THEN [tr EXCEPT !.state = RUNNING] ELSE tr,
     raised |-> FALSE,
     log |-> <<Entry("cont", t, "-", tr.state, tr.inhibit,
                     IF killall(t) THEN RUNNING ELSE tr.state, tr.inhibit, killall(t))>>]

send_cont(tr, t) ==
    [tr  |-> [tr EXCEPT !.state = RUNNING],
     raised |-> FALSE,
     log |-> <<Entry("cont", t, "-", tr.state, tr.inhibit, RUNNING, tr.inhibit, killall(t))>>]

\* variant: the flag is set when the tracker is not visible
inhibit_if_visible_WhenHidden(tr, t, reg) ==
    LET tgt == get_target_state(tr.monitored_workspaces, reg)
        new == IF tgt = STOPPED THEN [tr EXCEPT !.inhibit = TRUE] ELSE tr
    IN [tr  |-> new,
        raised |-> FALSE,
        log |-> <<Entry("inhibit_if_visible", t, tgt, tr.state, tr.inhibit,
                        new.state, new.inhibit, TRUE)>>]

\* variant: the flag is set without looking at the target state
inhibit_if_visible_Always(tr, t, reg) ==
    LET tgt == get_target_state(tr.monitored_workspaces, reg)
        new == [tr EXCEPT !.inhibit = TRUE]
    IN [tr  |-> new,
        raised |-> FALSE,
        log |-> <<Entry("inhibit_if_visible", t, tgt, tr.state, tr.inhibit,
                        new.state, new.inhibit, TRUE)>>]

inhibit_if_visible(tr, t, reg) ==
    LET tgt == get_target_state(tr.monitored_workspaces, reg)
        new == IF tgt = RUNNING THEN [tr EXCEPT !.inhibit = TRUE] ELSE tr
    IN [tr  |-> new,
        raised |-> FALSE,
        log |-> <<Entry("inhibit_if_visible", t, tgt, tr.state, tr.inhibit,
                        new.state, new.inhibit, TRUE)>>]

\* the record check_state returns: r is what the branch taken did to tracker tr
Checked(tr, t, target_state, r) ==
    [tr  |-> r.tr,
     raised |-> r.raised,
     log |-> r.log \o <<Entry("check_state", t, target_state, tr.state, tr.inhibit,
                              r.tr.state, r.tr.inhibit, ~r.raised)>>]

Nothing(tr) == [tr |-> tr, raised |-> FALSE, log |-> <<>>]

\* variant: a stopped tracker that became visible is not continued
check_state_NoResume(tr, t, reg) ==
    LET target_state == get_target_state(tr.monitored_workspaces, reg)
    IN Checked(tr, t, target_state,
         IF target_state = STOPPED /\ tr.state = RUNNING
         THEN IF ~tr.inhibit THEN send_stop(tr, t) ELSE Nothing(tr)
         ELSE IF target_state = RUNNING
         THEN Nothing([tr EXCEPT !.inhibit = FALSE])
         ELSE Nothing(tr))

\* variant: the inhibit flag is not consulted before stopping
check_state_IgnoresInhibit(tr, t, reg) ==
    LET target_state == get_target_state(tr.monitored_workspaces, reg)
    IN Checked(tr, t, target_state,
         IF target_state = STOPPED /\ tr.state = RUNNING
         THEN send_stop(tr, t)
         ELSE IF target_state = RUNNING
         THEN LET u == [tr EXCEPT !.inhibit = FALSE]
              IN IF u.state = STOPPED THEN send_cont(u, t) ELSE Nothing(u)
         ELSE Nothing(tr))

\* variant: the flag is cleared only together with a continue
check_state_ClearsOnContinueOnly(tr, t, reg) ==
    LET target_state == get_target_state(tr.monitored_workspaces, reg)
    IN Checked(tr, t, target_state,
         IF target_state = STOPPED /\ tr.state = RUNNING
         THEN IF ~tr.inhibit THEN send_stop(tr, t) ELSE Nothing(tr)
         ELSE IF target_state = RUNNING
         THEN IF tr.state = STOPPED
              THEN send_cont([tr EXCEPT !.inhibit = FALSE], t) ELSE Nothing(tr)
         ELSE Nothing(tr))

\* variant: the test of the flag is inverted
check_state_InvertedInhibit(tr, t, reg) ==
    LET target_state == get_target_state(tr.monitored_workspaces, reg)
    IN Checked(tr, t, target_state,
         IF target_state = STOPPED /\ tr.state = RUNNING
         THEN IF tr.inhibit THEN send_stop(tr, t) ELSE Nothing(tr)
         ELSE IF target_state = RUNNING
         THEN LET u == [tr EXCEPT !.inhibit = FALSE]
              IN IF u.state = STOPPED THEN send_cont(u, t) ELSE Nothing(u)
         ELSE Nothing(tr))

\* variant: the flag is never cleared
check_state_KeepsInhibit(tr, t, reg) ==
    LET target_state == get_target_state(tr.monitored_workspaces, reg)
    IN Checked(tr, t, target_state,
         IF target_state = STOPPED /\ tr.state = RUNNING
         THEN IF ~tr.inhibit THEN send_stop(tr, t) ELSE Nothing(tr)
         ELSE IF target_state = RUNNING
         THEN IF tr.state = STOPPED THEN send_cont(tr, t) ELSE Nothing(tr)
         ELSE Nothing(tr))

\* variant: a visible tracker is continued whatever its state
check_state_AlwaysContinues(tr, t, reg) ==
    LET target_state == get_target_state(tr.monitored_workspaces, reg)
    IN Checked(tr, t, target_state,
         IF target_state = STOPPED /\ tr.state = RUNNING
         THEN IF ~tr.inhibit THEN send_stop(tr, t) ELSE Nothing(tr)
         ELSE IF target_state = RUNNING
         THEN send_cont([tr EXCEPT !.inhibit = FALSE], t)
         ELSE Nothing(tr))

check_state(tr, t, reg) ==
    LET target_state == get_target_state(tr.monitored_workspaces, reg)
    IN Checked(tr, t, target_state,
         IF target_state = STOPPED /\ tr.state = RUNNING
         THEN IF ~tr.inhibit THEN send_stop(tr, t) ELSE Nothing(tr)
         ELSE IF target_state = RUNNING
         THEN LET u == [tr EXCEPT !.inhibit = FALSE]
              IN IF u.state = STOPPED THEN send_cont(u, t) ELSE Nothing(u)
         ELSE Nothing(tr))


\* a query made on behalf of tracker t (no tracker field changes)
Query(op, tr, t, ok) == Entry(op, t, "-", tr.state, tr.inhibit, tr.state, tr.inhibit, ok)

\* variant: with no process left the window ids and the workspaces are emptied
update_workspace_list_ClearsOnNoProcess(tr, t, moved_only, failKind) ==
    IF moved_only
    THEN \* update_workspaces = True, then line 195 reads the local `xwids`,
         \* which is only bound inside `if not moved_only:` -> UnboundLocalError
         [tr |-> tr, raised |-> TRUE,
          log |-> <<Query("update_workspace_list", tr, t, FALSE)>>]
    ELSE IF failKind = "ps"
    THEN [tr |-> tr, raised |-> TRUE,
          log |-> <<Query("ps", tr, t, FALSE), Query("update_workspace_list", tr, t, FALSE)>>]
    ELSE
    LET pids == get_process_ids(ProcessNames[t])
        t1   == [tr EXCEPT !.pid_list = pids]
        t0   == [t1 EXCEPT !.xwid_list = {}, !.monitored_workspaces = {}]
    IN  IF pids = {}
        THEN [tr |-> t0, raised |-> FALSE,
              log |-> <<Query("ps", tr, t, TRUE), Query("update_workspace_list", tr, t, TRUE)>>]
        ELSE
        LET xwids == UNION {get_xwindows_for_pid(pid) : pid \in pids}
            update_workspaces == xwids # tr.xwid_list
            t2 == [t1 EXCEPT !.xwid_list = xwids]
        IN  IF ~update_workspaces
            THEN [tr |-> t2, raised |-> FALSE,
                  log |-> <<Query("ps", tr, t, TRUE), Query("xdotool", tr, t, TRUE),
                            Query("update_workspace_list", tr, t, TRUE)>>]
            ELSE IF failKind = "tree"
            THEN [tr |-> t2, raised |-> TRUE,
                  log |-> <<Query("ps", tr, t, TRUE), Query("xdotool", tr, t, TRUE),
                            Query("get_tree", tr, t, FALSE),
                            Query("update_workspace_list", tr, t, FALSE)>>]
            ELSE [tr |-> [t2 EXCEPT !.monitored_workspaces =
                                        get_workspaces_for_xwindows(xwids)],
                  raised |-> FALSE,
                  log |-> <<Query("ps", tr, t, TRUE), Query("xdotool", tr, t, TRUE),
                            Query("get_tree", tr, t, TRUE),
                            Query("update_workspace_list", tr, t, TRUE)>>]

\* failKind: "none", or the query that fails during this call: "ps" (process
\* listing) or "tree" (i3-msg get_tree fails, or the tree has an unexpected shape)
update_workspace_list(tr, t, moved_only, failKind) ==
    IF moved_only
    THEN \* update_workspaces = True, then line 195 reads the local `xwids`,
         \* which is only bound inside `if not moved_only:` -> UnboundLocalError
         [tr |-> tr, raised |-> TRUE,
          log |-> <<Query("update_workspace_list", tr, t, FALSE)>>]
    ELSE IF failKind = "ps"
    THEN [tr |-> tr, raised |-> TRUE,
          log |-> <<Query("ps", tr, t, FALSE), Query("update_workspace_list", tr, t, FALSE)>>]
    ELSE
    LET pids == get_process_ids(ProcessNames[t])
        t1   == [tr EXCEPT !.pid_list = pids]
    IN  IF pids = {}
        THEN [tr |-> t1, raised |-> FALSE,
              log |-> <<Query("ps", tr, t, TRUE), Query("update_workspace_list", tr, t, TRUE)>>]
        ELSE
        LET xwids == UNION {get_xwindows_for_pid(pid) : pid \in pids}
            update_workspaces == xwids # tr.xwid_list
            t2 == [t1 EXCEPT !.xwid_list = xwids]
        IN  IF ~update_workspaces
            THEN [tr |-> t2, raised |-> FALSE,
                  log |-> <<Query("ps", tr, t, TRUE), Query("xdotool", tr, t, TRUE),
                            Query("update_workspace_list", tr, t, TRUE)>>]
            ELSE IF failKind = "tree"
            THEN [tr |-> t2, raised |-> TRUE,
                  log |-> <<Query("ps", tr, t, TRUE), Query("xdotool", tr, t, TRUE),
                            Query("get_tree", tr, t, FALSE),
                            Query("update_workspace_list", tr, t, FALSE)>>]
            ELSE [tr |-> [t2 EXCEPT !.monitored_workspaces =
                                        get_workspaces_for_xwindows(xwids)],
                  raised |-> FALSE,
                  log |-> <<Query("ps", tr, t, TRUE), Query("xdotool", tr, t, TRUE),
                            Query("get_tree", tr, t, TRUE),
                            Query("update_workspace_list", tr, t, TRUE)>>]

\* ------------------------------------------------- iteration over trackers
\* `for mp in self.monitored_processes: body(mp)`: R[t] is what the body does
\* to tracker t; the loop stops at the first tracker whose body raises.
RECURSIVE Each(_, _)
Each(body, k) == IF k = 0 THEN <<>> ELSE Append(Each(body, k - 1), body[k])

ForEach(body) == Each(body, Len(ProcessNames))

FirstRaised(R) ==
    IF \E t \in Trackers : R[t].raised
    THEN CHOOSE t \in Trackers : R[t].raised /\ \A u \in Trackers : R[u].raised => t <= u
    ELSE Len(ProcessNames) + 1

Reached(R) == {t \in Trackers : t <= FirstRaised(R)}

AnyRaised(R) == \E t \in Trackers : R[t].raised

\* the trackers after the loop, T being the trackers before it
After(R, T) == [t \in Trackers |-> IF t \in Reached(R) THEN R[t].tr ELSE T[t]]

RECURSIVE Flatten(_, _)
Flatten(R, k) ==
    IF k = 0 THEN <<>>
    ELSE Flatten(R, k - 1) \o (IF k \in Reached(R) THEN R[k].log ELSE <<>>)

LoopLog(R) == Flatten(R, Len(ProcessNames))

TrackerList == [t \in Trackers |-> Tracker(t)]

IsSignal(e) == e.op \in {"stop", "cont"}

RECURSIVE LastSignal(_, _, _)
LastSignal(l, t, dflt) ==
    IF l = <<>> THEN dflt
    ELSE LET e == l[Len(l)]
         IN IF IsSignal(e) /\ e.t = t THEN e.op
            ELSE LastSignal(SubSeq(l, 1, Len(l) - 1), t, dflt)

Has(l, op, t) == \E i \in DOMAIN l : l[i].op = op /\ l[i].t = t

HasTgt(l, op, t, tgt) == \E i \in DOMAIN l : l[i].op = op /\ l[i].t = t /\ l[i].tgt = tgt

\* the history variable clipKept after a step that made the calls l
Kept(l, t) ==
    IF HasTgt(l, "inhibit_if_visible", t, RUNNING) /\ HasTgt(l, "check_state", t, RUNNING)
    THEN TRUE
    ELSE IF HasTgt(l, "check_state", t, STOPPED) THEN FALSE
    ELSE t \in clipKept

\* write the trackers and the record of the step's calls back
Commit(trackers, calls) ==
    \E T \in {trackers}, l \in {calls} :
        /\ pid_list' = [t \in Trackers |-> T[t].pid_list]
        /\ xwid_list' = [t \in Trackers |-> T[t].xwid_list]
        /\ monitored_workspaces' = [t \in Trackers |-> T[t].monitored_workspaces]
        /\ state' = [t \in Trackers |-> T[t].state]
        /\ inhibit' = [t \in Trackers |-> T[t].inhibit]
        /\ log' = l
        /\ lastSig' = [t \in Trackers |-> LastSignal(l, t, lastSig[t])]
        /\ clipKept' = {t \in Trackers : Kept(l, t)}

\* a loop over the trackers ended: back to the caller, or out by the exception
Outcome(R, next, onRaise) ==
    /\ pc' = IF AnyRaised(R) THEN onRaise ELSE next
    /\ exitReason' = IF AnyRaised(R)
                     THEN (IF onRaise = "crashed" THEN "init_error" ELSE "error")
                     ELSE exitReason

NoEvent == [kind |-> "-", change |-> "-", output |-> "-", name |-> "-", clip |-> "-"]

\* a step of the Manager itself (no tracker involved)
Step(op, ok) == Entry(op, 0, "-", "-", FALSE, "-", FALSE, ok)

\* which query fails while a handler runs: none, or the one named, made for tracker `at`
Fails == {[at |-> 0, kind |-> "none"]}
         \cup {[at |-> t, kind |-> k] : t \in Trackers, k \in {"ps", "tree"}}

FailKind(fail, t) == IF fail.at = t THEN fail.kind ELSE "none"

\* ------------------------------------------------------------------ Manager
Init ==
    /\ pc = "init"
    /\ enable_clibboard_checking \in BOOLEAN
    /\ workspace_by_output = [o \in {} |-> "1"]
    /\ last_clip = None
    /\ pid_list = [t \in Trackers |-> {}]
    /\ xwid_list = [t \in Trackers |-> {}]
    /\ monitored_workspaces = [t \in Trackers |-> {}]
    /\ state = [t \in Trackers |-> RUNNING]
    /\ inhibit = [t \in Trackers |-> FALSE]
    /\ wAlive \in SUBSET Pids
    /\ wWin \in [Windows -> Workspaces \cup {NoWs}]
    /\ WorldOK(wAlive, wWin)
    /\ \A w \in Windows : PidOf[w] \in wAlive => wWin[w] # NoWs
    /\ ev = NoEvent
    /\ log = <<>>
    /\ lastSig = [t \in Trackers |-> "none"]
    /\ exitReason = "none"
    /\ clipKept = {}
    /\ nEvents = 0
    /\ nEnv = 0

\* Manager.__init__: the trackers are built, then each is refreshed; an
\* exception here leaves the constructor, run() is never entered
ManagerInit ==
    /\ pc = "init"
    /\ \E fail \in Fails :
       \E R \in {ForEach([t \in Trackers |->
                    update_workspace_list(Tracker(t), t, FALSE, FailKind(fail, t))])} :
           /\ Commit(After(R, TrackerList), LoopLog(R))
           /\ Outcome(R, "start", "crashed")
    /\ ev' = [NoEvent EXCEPT !.kind = "__init__"]
    /\ UNCHANGED <<enable_clibboard_checking, workspace_by_output, last_clip,
                   worldVars, nEvents, nEnv>>

\* get_clipboard: what xsel printed, or None when it timed out
get_clipboard == {None} \cup Clips

\* variant: the polled value is stored even when the poll timed out
check_clipboard_StoresNone(c) ==
    [b |-> (c # None /\ c # last_clip),
     last_clip |-> c]

check_clipboard(c) ==
    [b |-> (c # None /\ c # last_clip),
     last_clip |-> IF c # None THEN c ELSE last_clip]

\* update_visible_workspaces replaces the dict by the snapshot it queried
update_visible_workspaces(snapshot) == snapshot

update_from_focus_event(reg, current_output, current_name) ==
    [o \in DOMAIN reg \cup {current_output} |->
        IF o = current_output THEN current_name ELSE reg[o]]

\* variant: the trackers are reconciled before the registry is rebuilt
RunStart_ChecksFirst ==
    /\ pc = "start"
    /\ \E c \in get_clipboard, snapshot \in Snapshots, ok \in BOOLEAN :
        /\ enable_clibboard_checking \/ c = None
        /\ last_clip' = IF enable_clibboard_checking THEN c ELSE last_clip
        /\ ev' = [NoEvent EXCEPT !.kind = "startup",
                                 !.clip = IF enable_clibboard_checking THEN c ELSE "-"]
        /\ \E R \in {ForEach([t \in Trackers |->
                        check_state(Tracker(t), t, workspace_by_output)])} :
             IF ok
             THEN /\ workspace_by_output' = update_visible_workspaces(snapshot)
                  /\ Commit(After(R, TrackerList),
                            LoopLog(R) \o <<Step("get_workspaces", TRUE)>>)
                  /\ Outcome(R, "handled", "cleanup")
             ELSE /\ workspace_by_output' = workspace_by_output
                  /\ Commit(After(R, TrackerList),
                            LoopLog(R) \o <<Step("get_workspaces", FALSE)>>)
                  /\ pc' = "cleanup"
                  /\ exitReason' = "error"
    /\ UNCHANGED <<enable_clibboard_checking, worldVars, nEvents, nEnv>>

\* run(), lines 317-323: the part of the try block before the event loop
RunStart ==
    /\ pc = "start"
    /\ \E c \in get_clipboard, snapshot \in Snapshots, ok \in BOOLEAN :
        /\ enable_clibboard_checking \/ c = None      \* no poll: c is not used
        /\ last_clip' = IF enable_clibboard_checking THEN c ELSE last_clip
        /\ ev' = [NoEvent EXCEPT !.kind = "startup",
                                 !.clip = IF enable_clibboard_checking THEN c ELSE "-"]
        /\ IF ok
           THEN \E reg \in {update_visible_workspaces(snapshot)} :
                \E R \in {ForEach([t \in Trackers |-> check_state(Tracker(t), t, reg)])} :
                   /\ workspace_by_output' = reg
                   /\ Commit(After(R, TrackerList),
                             <<Step("get_workspaces", TRUE)>> \o LoopLog(R))
                   /\ Outcome(R, "handled", "cleanup")
           ELSE /\ workspace_by_output' = workspace_by_output
                /\ Commit(TrackerList, <<Step("get_workspaces", FALSE)>>)
                /\ pc' = "cleanup"
                /\ exitReason' = "error"
    /\ UNCHANGED <<enable_clibboard_checking, worldVars, nEvents, nEnv>>

\* line 325: the handler has returned, the loop blocks in readline for the
\* next event (the record of the calls of the last handler is dropped)
AwaitEvent ==
    /\ pc = "handled"
    /\ pc' = "loop"
    /\ ev' = NoEvent
    /\ log' = <<>>
    /\ UNCHANGED <<enable_clibboard_checking, progVars, worldVars, lastSig,
                   exitReason, clipKept, nEvents, nEnv>>

\* an event arrives: guard and bookkeeping common to all handlers
Receive(e) ==
    /\ pc = "loop"
    /\ nEvents < MaxEvents
    /\ nEvents' = nEvents + 1
    /\ ev' = e
    /\ UNCHANGED <<enable_clibboard_checking, worldVars, nEnv>>

\* lines 337-348: workspace event, change == focus.  wellFormed = FALSE: the
\* `current` record lacks name or output, update_from_focus_event raises KeyError
WorkspaceFocus ==
    \E o \in Outputs, n \in Workspaces, c \in get_clipboard, wellFormed \in BOOLEAN :
        /\ pc = "loop"
        /\ wellFormed \/ (o = "HDMI-1" /\ n = "1")
        /\ enable_clibboard_checking \/ c = None       \* no poll: c is not used
        /\ \E cc \in {IF enable_clibboard_checking
                      THEN check_clipboard(c)
                      ELSE [b |-> FALSE, last_clip |-> last_clip]} :
           \E I \in {ForEach([t \in Trackers |->
                        IF cc.b THEN inhibit_if_visible(Tracker(t), t, workspace_by_output)
                                ELSE [tr |-> Tracker(t), raised |-> FALSE, log |-> <<>>]])} :
           \E pre \in {(IF enable_clibboard_checking
                        THEN <<Step("check_clipboard", cc.b)>> ELSE <<>>) \o LoopLog(I)} :
              /\ Receive([kind |-> "workspace", change |-> "focus",
                          output |-> IF wellFormed THEN o ELSE "-",
                          name |-> IF wellFormed THEN n ELSE "-",
                          clip |-> IF enable_clibboard_checking THEN c ELSE "-"])
              /\ last_clip' = cc.last_clip
              /\ IF wellFormed
                 THEN \E reg \in {update_from_focus_event(workspace_by_output, o, n)} :
                      \E R \in {ForEach([t \in Trackers |-> check_state(I[t].tr, t, reg)])} :
                         /\ workspace_by_output' = reg
                         /\ Commit(After(R, [t \in Trackers |-> I[t].tr]),
                                   pre \o <<Step("update_from_focus_event", TRUE)>>
                                       \o LoopLog(R))
                         /\ Outcome(R, "handled", "cleanup")
                 ELSE /\ workspace_by_output' = workspace_by_output
                      /\ Commit([t \in Trackers |-> I[t].tr],
                                pre \o <<Step("update_from_focus_event", FALSE)>>)
                      /\ pc' = "cleanup"
                      /\ exitReason' = "error"

\* lines 330-337: workspace event with another change; nothing is done
WorkspaceOther ==
    \E ch \in {"init", "empty", "move"} :
        /\ Receive([NoEvent EXCEPT !.kind = "workspace", !.change = ch])
        /\ Commit(TrackerList, <<>>)
        /\ pc' = "handled"
        /\ UNCHANGED <<exitReason, workspace_by_output, last_clip>>

\* variant: the tracker is reconciled first and refreshed afterwards
RefreshAndCheck_ChecksFirst(t, moved_only, failKind) ==
    LET c == check_state(Tracker(t), t, workspace_by_output)
    IN IF c.raised THEN c
       ELSE LET u == update_workspace_list(c.tr, t, moved_only, failKind)
            IN [tr |-> u.tr, raised |-> u.raised, log |-> c.log \o u.log]

\* the body of the loops of lines 356-358 and 361-363
RefreshAndCheck(t, moved_only, failKind) ==
    LET u == update_workspace_list(Tracker(t), t, moved_only, failKind)
    IN IF u.raised THEN u
       ELSE LET c == check_state(u.tr, t, workspace_by_output)
            IN [tr |-> c.tr, raised |-> c.raised, log |-> u.log \o c.log]

\* lines 355-358: window event, change in (new, close)
WindowNewClose ==
    \E ch \in {"new", "close"}, fail \in Fails :
        /\ pc = "loop"
        /\ \E R \in {ForEach([t \in Trackers |->
                        RefreshAndCheck(t, FALSE, FailKind(fail, t))])} :
            /\ Receive([NoEvent EXCEPT !.kind = "window", !.change = ch])
            /\ Commit(After(R, TrackerList), LoopLog(R))
            /\ Outcome(R, "handled", "cleanup")
            /\ UNCHANGED <<workspace_by_output, last_clip>>

\* lines 360-363: window event, change == move
WindowMove ==
    /\ pc = "loop"
    /\ \E R \in {ForEach([t \in Trackers |-> RefreshAndCheck(t, TRUE, "none")])} :
        /\ Receive([NoEvent EXCEPT !.kind = "window", !.change = "move"])
        /\ Commit(After(R, TrackerList), LoopLog(R))
        /\ Outcome(R, "handled", "cleanup")
        /\ UNCHANGED <<workspace_by_output, last_clip>>

\* variant: a window focus or title event is handled like new/close
WindowOther_Refreshes ==
    \E ch \in {"focus", "title"} :
        /\ pc = "loop"
        /\ \E R \in {ForEach([t \in Trackers |-> RefreshAndCheck(t, FALSE, "none")])} :
            /\ Receive([NoEvent EXCEPT !.kind = "window", !.change = ch])
            /\ Commit(After(R, TrackerList), LoopLog(R))
            /\ Outcome(R, "handled", "cleanup")
            /\ UNCHANGED <<workspace_by_output, last_clip>>

\* lines 350-363: window event with another change; nothing is done
WindowOther ==
    \E ch \in {"focus", "title"} :
        /\ Receive([NoEvent EXCEPT !.kind = "window", !.change = ch])
        /\ Commit(TrackerList, <<>>)
        /\ pc' = "handled"
        /\ UNCHANGED <<exitReason, workspace_by_output, last_clip>>

\* variant: a record with neither `current` nor `container` is skipped
BadEvent_SkipsUnknown ==
    \E k \in {"not_json", "no_change", "no_discriminant"} :
        /\ Receive([NoEvent EXCEPT !.kind = k])
        /\ Commit(TrackerList, <<>>)
        /\ pc' = IF k = "no_discriminant" THEN "handled" ELSE "cleanup"
        /\ exitReason' = IF k = "no_discriminant" THEN exitReason ELSE "error"
        /\ UNCHANGED <<workspace_by_output, last_clip>>

\* lines 326-328 and 365-366: a line that is no JSON, a record without
\* `change`, or one with neither `current` nor `container`
BadEvent ==
    \E k \in {"not_json", "no_change", "no_discriminant"} :
        /\ Receive([NoEvent EXCEPT !.kind = k])
        /\ Commit(TrackerList, <<>>)
        /\ pc' = "cleanup"
        /\ exitReason' = "error"
        /\ UNCHANGED <<workspace_by_output, last_clip>>

\* line 325 / execute_iter_lines: the subscription ends (i3-msg exited)
StreamEnd ==
    /\ pc = "loop"
    /\ pc' = "cleanup"
    /\ exitReason' = "stream_end"
    /\ ev' = [NoEvent EXCEPT !.kind = "stream_end"]
    /\ Commit(TrackerList, <<>>)
    /\ UNCHANGED <<enable_clibboard_checking, workspace_by_output, last_clip,
                   worldVars, nEvents, nEnv>>

\* lines 368-371: the finally block
Cleanup ==
    /\ pc = "cleanup"
    /\ \E R \in {ForEach([t \in Trackers |-> send_cont(Tracker(t), t)])} :
        /\ Commit(After(R, TrackerList), LoopLog(R))
        /\ pc' = IF AnyRaised(R) THEN "crashed" ELSE "done"
    /\ ev' = [NoEvent EXCEPT !.kind = "finally"]
    /\ UNCHANGED <<enable_clibboard_checking, workspace_by_output, last_clip,
                   worldVars, exitReason, nEvents, nEnv>>

\* ------------------------------------------------------------- environment
\* one change of the desktop: a process starts or exits (its windows go with
\* it), or a window opens, closes or moves
EnvStep ==
    /\ pc = "loop"
    /\ nEnv < MaxEnvSteps
    /\ nEnv' = nEnv + 1
    /\ \/ \E p \in Pids \ wAlive :
            /\ wAlive' = wAlive \cup {p}
            /\ UNCHANGED wWin
       \/ \E p \in wAlive :
            /\ wAlive' = wAlive \ {p}
            /\ wWin' = [w \in Windows |-> IF PidOf[w] = p THEN NoWs ELSE wWin[w]]
       \/ \E w \in Windows, ws \in Workspaces \cup {NoWs} :
            /\ PidOf[w] \in wAlive
            /\ ws # wWin[w]
            /\ wWin' = [wWin EXCEPT ![w] = ws]
            /\ UNCHANGED wAlive
    /\ UNCHANGED <<pc, enable_clibboard_checking, progVars, ev, log, lastSig,
                   exitReason, clipKept, nEvents>>

Next ==
    \/ ManagerInit
    \/ RunStart
    \/ AwaitEvent
    \/ WorkspaceFocus
    \/ WorkspaceOther
    \/ WindowNewClose
    \/ WindowMove
    \/ WindowOther
    \/ BadEvent
    \/ StreamEnd
    \/ Cleanup
    \/ EnvStep

Spec == Init /\ [][Next]_vars

\* ------------------------------------------------- calls made one at a time
\* A second specification: a tracker in any state (every combination of
\* runState, inhibit and occupied workspaces), any registry; each step is one
\* call of one method on one tracker.
InitCalls ==
    /\ pc = "calls"
    /\ enable_clibboard_checking = FALSE
    /\ workspace_by_output \in Registries
    /\ last_clip = None
    /\ pid_list = [t \in Trackers |-> {}]
    /\ xwid_list = [t \in Trackers |-> {}]
    /\ monitored_workspaces \in [Trackers -> SUBSET Workspaces]
    /\ state \in [Trackers -> {STOPPED, RUNNING}]
    /\ inhibit \in [Trackers -> BOOLEAN]
    /\ wAlive \in {{}, Pids}
    /\ wWin = [w \in Windows |-> NoWs]
    /\ ev = NoEvent
    /\ log = <<>>
    /\ lastSig = [t \in Trackers |-> "none"]
    /\ exitReason = "none"
    /\ clipKept = {}
    /\ nEvents = 0
    /\ nEnv = 0

Call(name, t, r) ==
    /\ pc = "calls"
    /\ ev' = [NoEvent EXCEPT !.kind = name]
    /\ Commit([TrackerList EXCEPT ![t] = r.tr], r.log)
    /\ UNCHANGED <<pc, enable_clibboard_checking, workspace_by_output, last_clip,
                   worldVars, exitReason, nEvents, nEnv>>

CallCheckState ==
    \E t \in Trackers : \E r \in {check_state(Tracker(t), t, workspace_by_output)} :
        Call("check_state", t, r)

CallInhibitIfVisible ==
    \E t \in Trackers : \E r \in {inhibit_if_visible(Tracker(t), t, workspace_by_output)} :
        Call("inhibit_if_visible", t, r)

CallGetTargetState ==
    \E t \in Trackers :
        Call("get_target_state", t,
             [tr  |-> Tracker(t),
              log |-> <<Entry("get_target_state", t,
                              get_target_state(monitored_workspaces[t], workspace_by_output),
                              state[t], inhibit[t], state[t], inhibit[t], TRUE)>>])

NextCalls ==
    \/ CallCheckState
    \/ CallInhibitIfVisible
    \/ CallGetTargetState

SpecCalls == InitCalls /\ [][NextCalls]_vars

\* ------------------------------------------------------------------ claims
Target(t) == get_target_state(monitored_workspaces[t], workspace_by_output)

Visible(t) == monitored_workspaces[t] \cap Values(workspace_by_output) # {}

Checks(l) == {i \in DOMAIN l : l[i].op = "check_state"}

Signals(l, op, t) == {i \in DOMAIN l : l[i].op = op /\ l[i].t = t}

\* C1: when run() has exited (finally block done), whatever events were
\* processed and however the loop ended, every tracker is RUNNING and the last
\* signal issued for it is a continue; run() is never left without the cleanup.
C1_CleanupLeavesAllRunning ==
    /\ pc = "done" => \A t \in Trackers : state[t] = RUNNING /\ lastSig[t] = "cont"
    /\ pc = "crashed" => exitReason = "init_error"

C1_Witness ==
    /\ pc = "done"
    /\ exitReason = "error"
    /\ \E i \in DOMAIN log : log[i].op = "cont" /\ log[i].pre = STOPPED /\ ~log[i].ok

\* C2: a check_state call that observed target RUNNING leaves the tracker
\* RUNNING; after startup and after every completely processed event no tracker
\* is STOPPED while one of its workspaces is a value of the registry.
C2_VisibleNeverStopped ==
    /\ \A i \in Checks(log) : log[i].tgt = RUNNING => log[i].st = RUNNING
    /\ pc \in {"handled", "loop"} =>
          \A t \in Trackers : Visible(t) => state[t] # STOPPED

C2_Witness ==
    /\ pc = "handled"
    /\ ev.kind \in {"workspace", "window"}
    /\ \E i \in Checks(log) :
          log[i].tgt = RUNNING /\ log[i].pre = STOPPED /\ Visible(log[i].t)

\* C3: a check_state call made while inhibit is true issues no stop and does
\* not take the tracker from RUNNING to STOPPED, whatever the target; when the
\* target it observed is STOPPED the flag is still true after the call.
C3_InhibitBlocksStop ==
    \A i \in Checks(log) :
        log[i].preInh =>
            /\ Signals(log, "stop", log[i].t) = {}
            /\ ~(log[i].pre = RUNNING /\ log[i].st = STOPPED)
            /\ state[log[i].t] = log[i].st
            /\ log[i].tgt = STOPPED => (log[i].inh /\ inhibit[log[i].t])

C3_Witness ==
    \E i \in Checks(log) :
        /\ log[i].preInh /\ log[i].pre = RUNNING /\ log[i].tgt = STOPPED
        /\ lastSig[log[i].t] = "none"

\* C4: after a check_state call that observed target RUNNING the inhibit flag
\* is false, whatever the flag and the runState were before the call.
C4_InhibitClearedWhenVisible ==
    \A i \in Checks(log) :
        log[i].tgt = RUNNING => (~log[i].inh /\ ~inhibit[log[i].t])

C4_Witness ==
    \E i \in Checks(log) :
        log[i].tgt = RUNNING /\ log[i].preInh /\ log[i].pre = RUNNING

\* C5: check_state is idempotent: a call on a tracker directly after a call on
\* the same tracker (nothing else changed in between) issues no signal and
\* leaves runState and inhibit as the first call left them.
C5_Idempotent ==
    \A t \in Trackers :
        (log # <<>> /\ log[Len(log)].op = "check_state" /\ log[Len(log)].t = t) =>
            LET second == check_state(Tracker(t), t, workspace_by_output)
            IN /\ \A i \in DOMAIN second.log : ~IsSignal(second.log[i])
               /\ second.tr.state = state[t]
               /\ second.tr.inhibit = inhibit[t]

\* a call that found nothing to do on a tracker an earlier call had stopped
C5_Witness ==
    /\ pc = "calls"
    /\ Len(log) = 1
    /\ log[1].op = "check_state" /\ log[1].tgt = STOPPED
    /\ log[1].pre = STOPPED /\ log[1].st = STOPPED
    /\ lastSig[log[1].t] = "stop"

\* C6: get_target_state is RUNNING exactly when the occupied workspaces and the
\* values of the registry intersect, STOPPED otherwise, whatever runState and
\* inhibit are; the call changes nothing.
C6_TargetIsIntersection ==
    /\ \A t \in Trackers : Target(t) = IF Visible(t) THEN RUNNING ELSE STOPPED
    /\ \A i \in DOMAIN log :
          log[i].op = "get_target_state" =>
              /\ log[i].tgt = IF Visible(log[i].t) THEN RUNNING ELSE STOPPED
              /\ log[i].st = log[i].pre /\ state[log[i].t] = log[i].pre
              /\ log[i].inh = log[i].preInh /\ inhibit[log[i].t] = log[i].preInh

C6_Witness ==
    \E i \in DOMAIN log :
        /\ log[i].op = "get_target_state" /\ log[i].tgt = RUNNING
        /\ log[i].pre = STOPPED /\ log[i].preInh
        /\ monitored_workspaces[log[i].t] = Workspaces
        /\ Values(workspace_by_output) = {"3"}

\* C7: check_state on a RUNNING, not inhibited tracker with target STOPPED
\* issues exactly one stop and sets STOPPED; so after each completely processed
\* focus or window new/close event every tracker that is not inhibited and has
\* no occupied workspace among the registry values is STOPPED.
C7_InvisibleGetsStopped ==
    /\ \A i \in Checks(log) :
          (log[i].pre = RUNNING /\ ~log[i].preInh /\ log[i].tgt = STOPPED) =>
              /\ log[i].st = STOPPED
              /\ Cardinality(Signals(log, "stop", log[i].t)) = 1
              /\ Signals(log, "cont", log[i].t) = {}
    /\ ( /\ pc = "handled"
         /\ \/ ev.kind = "workspace" /\ ev.change = "focus"
            \/ ev.kind = "window" /\ ev.change \in {"new", "close"} )
       => \A t \in Trackers : (~inhibit[t] /\ ~Visible(t)) => state[t] = STOPPED

C7_Witness ==
    /\ pc = "handled"
    /\ ev.kind = "workspace" /\ ev.change = "focus"
    /\ \E i \in Checks(log) :
          /\ log[i].pre = RUNNING /\ ~log[i].preInh /\ log[i].tgt = STOPPED
          /\ state[log[i].t] = STOPPED
          /\ monitored_workspaces[log[i].t] # {}

\* C8 as stated: a tracker that a focus event with a changed clipboard found
\* visible before and after the focus (clipKept) is sent no stop at the next
\* later event at which its visibility disappears.
C8_InhibitOutlivesVisibleFocus ==
    [][ \A t \in clipKept :
            HasTgt(log', "check_state", t, STOPPED) => ~Has(log', "stop", t) ]_vars

\* C8 amended: inhibit_if_visible sets the flag of a tracker that is visible
\* before the focus is applied; it survives the event and suppresses the stop
\* only if the tracker is not visible under the new focus; if it is still
\* visible the same event's check_state clears it, and the next event at which
\* its visibility disappears stops it unless the clipboard changed again then.
C8_InhibitOnlySurvivesInvisibleFocus ==
    [][ \A t \in Trackers :
          /\ HasTgt(log', "inhibit_if_visible", t, RUNNING) =>
                /\ HasTgt(log', "check_state", t, STOPPED) =>
                      (inhibit'[t] /\ state'[t] = RUNNING /\ ~Has(log', "stop", t))
                /\ HasTgt(log', "check_state", t, RUNNING) => ~inhibit'[t]
          /\ ( /\ t \in clipKept
               /\ HasTgt(log', "check_state", t, STOPPED)
               /\ ~Has(log', "inhibit_if_visible", t) )
             => (Has(log', "stop", t) /\ state'[t] = STOPPED) ]_vars

C8_Witness ==
    /\ pc = "handled"
    /\ ev.kind = "workspace" /\ ev.change = "focus"
    /\ \E t \in Trackers :
          /\ HasTgt(log, "inhibit_if_visible", t, RUNNING)
          /\ HasTgt(log, "check_state", t, RUNNING)
          /\ ~inhibit[t]

\* C9: a window move event refreshes every tracker from its cached window ids
\* (pid_list and xwid_list as they were, monitored_workspaces = the workspaces
\* holding those windows in the current tree), reconciles every tracker, and
\* the loop goes on without a fatal error.
C9_MoveRefreshesOccupancy ==
    (ev.kind = "window" /\ ev.change = "move") =>
        /\ pc = "handled"
        /\ \A t \in Trackers :
              /\ monitored_workspaces[t] = get_workspaces_for_xwindows(xwid_list[t])
              /\ Has(log, "check_state", t)
              /\ ~Has(log, "ps", t)

\* C10: a stop or continue whose killall failed raises nothing: runState is set
\* as if it had been delivered, the reconcile that issued it completes, and the
\* loop is never left because of a signal (the finally block continues every
\* tracker whatever killall reports).
C10_SignalFailureSwallowed ==
    /\ \A i \in DOMAIN log :
          (IsSignal(log[i]) /\ ~log[i].ok) =>
              /\ log[i].st = IF log[i].op = "stop" THEN STOPPED ELSE RUNNING
              /\ ev.kind # "finally" =>
                    /\ i < Len(log)
                    /\ log[i + 1].op = "check_state" /\ log[i + 1].t = log[i].t
                    /\ log[i + 1].ok /\ log[i + 1].st = log[i].st
    /\ pc = "cleanup" => (log = <<>> \/ (~log[Len(log)].ok /\ log[Len(log)].op # "check_state"))
    /\ ev.kind = "finally" => (pc = "done" /\ Len(log) = Len(ProcessNames))
    /\ pc = "handled" => \A t \in Trackers :
          lastSig[t] # "none" => state[t] = IF lastSig[t] = "stop" THEN STOPPED ELSE RUNNING

C10_Witness ==
    /\ pc = "handled"
    /\ \E i \in DOMAIN log :
          /\ log[i].op = "stop" /\ ~log[i].ok
          /\ state[log[i].t] = STOPPED

\* C11: on a workspace focus event with clipboard checking enabled the
\* clipboard is polled first, inhibit_if_visible is evaluated for every tracker
\* against the registry as it was before the event, then the registry is
\* updated, then every tracker is reconciled against the new registry; a
\* tracker with target RUNNING before and target STOPPED after, on an event
\* where the clipboard changed, ends the event RUNNING, inhibited, not stopped.
C11_FocusInhibitsBeforeRegistryUpdate ==
    [][ (ev'.kind = "workspace" /\ ev'.change = "focus" /\ enable_clibboard_checking) =>
          /\ log'[1].op = "check_clipboard"
          /\ \A t \in Trackers :
                /\ log'[1].ok <=> Has(log', "inhibit_if_visible", t)
                /\ \A i \in Signals(log', "inhibit_if_visible", t) :
                      /\ log'[i].tgt = Target(t)
                      /\ \E j \in DOMAIN log' :
                            i < j /\ log'[j].op = "update_from_focus_event"
                /\ \A i \in DOMAIN log' :
                      (log'[i].t = t /\ log'[i].op \in {"check_state", "stop", "cont"}) =>
                          /\ \E j \in DOMAIN log' :
                                j < i /\ log'[j].op = "update_from_focus_event"
                          /\ log'[i].op = "check_state" => log'[i].tgt = Target(t)'
                /\ pc' = "handled" => Has(log', "check_state", t)
                /\ ( /\ log'[1].ok
                     /\ pc' = "handled"
                     /\ Target(t) = RUNNING
                     /\ Target(t)' = STOPPED )
                   => /\ state'[t] = RUNNING
                      /\ inhibit'[t]
                      /\ ~Has(log', "stop", t) ]_vars

C11_Witness ==
    /\ pc = "handled"
    /\ ev.kind = "workspace" /\ ev.change = "focus"
    /\ log[1].op = "check_clipboard" /\ log[1].ok
    /\ \E t \in Trackers :
          /\ HasTgt(log, "inhibit_if_visible", t, RUNNING)
          /\ HasTgt(log, "check_state", t, STOPPED)
          /\ state[t] = RUNNING /\ inhibit[t] /\ lastSig[t] = "none"

\* C12: skipping the workspace query when the window-id set is unchanged is a
\* pure optimization: after every full refresh (window new/close event) of a
\* tracker with a non-empty PID set, monitored_workspaces is what a refresh
\* that always queries the tree would have stored, the workspaces that hold
\* the tracker's windows in the current tree.
C12_SkipIsPureOptimization ==
    (pc = "handled" /\ ev.kind = "window" /\ ev.change \in {"new", "close"}) =>
        \A t \in Trackers :
            pid_list[t] # {} =>
                monitored_workspaces[t] = get_workspaces_for_xwindows(xwid_list[t])

C14_IgnoredEventsChangeNothing ==
    [][ ( \/ ev'.kind = "workspace" /\ ev'.change \in {"init", "empty", "move"}
          \/ ev'.kind = "window" /\ ev'.change \in {"focus", "title"} )
        => /\ UNCHANGED <<workspace_by_output, last_clip, pid_list, xwid_list,
                          monitored_workspaces, state, inhibit>>
           /\ log' = <<>>
           /\ lastSig' = lastSig
           /\ pc' = "handled"
           /\ exitReason' = exitReason ]_vars

\* an ignored event arrived while a tracker's occupancy was out of date
C14_Witness ==
    /\ pc = "handled"
    /\ \/ ev.kind = "workspace" /\ ev.change \in {"init", "empty", "move"}
       \/ ev.kind = "window" /\ ev.change \in {"focus", "title"}
    /\ exitReason = "none"
    /\ \E t \in Trackers :
          /\ pid_list[t] # {}
          /\ monitored_workspaces[t] # get_workspaces_for_xwindows(xwid_list[t])

\* C15: an event without a `change` field, or with neither `current` nor
\* `container`, is fatal: the handler touches no tracker, the loop is left with
\* an error, no further event is processed, and the finally block continues
\* every tracker (all RUNNING) before run() exits.
C15_StructuralErrorIsFatal ==
    [][ /\ ev'.kind \in {"no_change", "no_discriminant"} =>
              /\ pc' = "cleanup"
              /\ exitReason' = "error"
              /\ log' = <<>>
              /\ UNCHANGED <<workspace_by_output, last_clip, progVars>>
        /\ pc = "cleanup" =>
              /\ ev'.kind = "finally"
              /\ nEvents' = nEvents
              /\ pc' = "done"
              /\ exitReason' = exitReason
              /\ \A t \in Trackers : state'[t] = RUNNING /\ Has(log', "cont", t)
        /\ pc = "done" => FALSE ]_vars

\* the bad event arrived while a tracker was stopped and more events could follow
C15_Witness ==
    /\ pc = "cleanup"
    /\ ev.kind \in {"no_change", "no_discriminant"}
    /\ exitReason = "error"
    /\ nEvents < MaxEvents
    /\ \E t \in Trackers : state[t] = STOPPED /\ pid_list[t] # {}

\* C16: at startup no signal is issued while the trackers are refreshed in
\* __init__, and in run() none is issued before the registry has been rebuilt;
\* the initial reconcile then sends a stop to exactly the programs that have no
\* window on a workspace visible at startup, and a continue to none.
C16_StartupRefreshesBeforeSignals ==
    /\ ev.kind = "__init__" =>
          /\ \A i \in DOMAIN log : ~IsSignal(log[i]) /\ log[i].op # "check_state"
          /\ \A t \in Trackers : lastSig[t] = "none" /\ state[t] = RUNNING
          /\ pc = "start" =>
                \A t \in Trackers : \E i \in Signals(log, "update_workspace_list", t) : log[i].ok
    /\ ev.kind = "startup" =>
          /\ log[1].op = "get_workspaces"
          /\ ~log[1].ok => Len(log) = 1
          /\ pc = "handled" =>
                \A t \in Trackers :
                    LET mine == {w \in Windows : NameOf[PidOf[w]] = ProcessNames[t]
                                                 /\ wWin[w] # NoWs}
                        seen == \E w \in mine : wWin[w] \in Values(workspace_by_output)
                    IN /\ Has(log, "check_state", t)
                       /\ Has(log, "stop", t) <=> ~seen
                       /\ state[t] = IF seen THEN RUNNING ELSE STOPPED
                       /\ ~Has(log, "cont", t)

\* one program is left running, the other is stopped, both have windows
C16_Witness ==
    /\ pc = "handled"
    /\ ev.kind = "startup"
    /\ \A w \in Windows : wWin[w] # NoWs
    /\ \E t, u \in Trackers :
          /\ state[t] = RUNNING /\ ~Has(log, "stop", t)
          /\ state[u] = STOPPED /\ Has(log, "stop", u)

\* C17 as stated: while a window new/close event is processed no stop or
\* continue is issued for any tracker before the occupancy refresh of every
\* tracker has completed.
C17_AllRefreshedBeforeAnySignal ==
    (ev.kind = "window" /\ ev.change \in {"new", "close"}) =>
        \A i \in DOMAIN log :
            IsSignal(log[i]) =>
                \A t \in Trackers :
                    \E j \in Signals(log, "update_workspace_list", t) : j < i /\ log[j].ok

\* C17 amended: on a window new/close event the trackers are handled one after
\* another, each refreshed and then at once reconciled: a signal for a tracker
\* is only issued after that tracker's own refresh has completed, and all calls
\* made for an earlier tracker precede all calls made for a later one.
C17_EachRefreshedBeforeItsReconcile ==
    (ev.kind = "window" /\ ev.change \in {"new", "close"}) =>
        /\ \A i \in DOMAIN log :
              log[i].op \in {"check_state", "stop", "cont"} =>
                  \E j \in Signals(log, "update_workspace_list", log[i].t) :
                      j < i /\ log[j].ok
        /\ \A i, j \in DOMAIN log : log[i].t < log[j].t => i < j
        /\ pc = "handled" =>
              \A t \in Trackers :
                  Has(log, "update_workspace_list", t) /\ Has(log, "check_state", t)

\* the first tracker was stopped before the second was refreshed
C17_Witness ==
    /\ pc = "handled"
    /\ ev.kind = "window" /\ ev.change \in {"new", "close"}
    /\ \E i, j \in DOMAIN log :
          /\ i < j
          /\ log[i].op = "stop"
          /\ log[j].op = "update_workspace_list" /\ log[j].t # log[i].t

\* C18: on a focus event with clipboard checking enabled, check_clipboard
\* reports a change exactly when the poll returned a value that differs from
\* last_clip, and afterwards last_clip is the polled value; a poll that timed
\* out reports no change, leaves last_clip as it was and inhibits no tracker;
\* None is never stored over a content read earlier.
C18_ClipboardChangeDetection ==
    [][ /\ ( /\ ev'.kind = "workspace" /\ ev'.change = "focus"
             /\ enable_clibboard_checking )
           => /\ log'[1].op = "check_clipboard"
              /\ log'[1].ok <=> (ev'.clip # None /\ ev'.clip # last_clip)
              /\ ev'.clip # None => last_clip' = ev'.clip
              /\ ev'.clip = None =>
                    /\ last_clip' = last_clip
                    /\ \A t \in Trackers :
                          /\ ~Has(log', "inhibit_if_visible", t)
                          /\ inhibit'[t] => inhibit[t]
        /\ last_clip # None => last_clip' # None ]_vars

\* the poll timed out on a focus that hides a tracker: it is stopped, and the
\* content read at startup is kept
C18_Witness ==
    /\ pc = "handled"
    /\ ev.kind = "workspace" /\ ev.change = "focus"
    /\ ev.clip = None
    /\ log[1].op = "check_clipboard" /\ ~log[1].ok
    /\ last_clip \in Clips
    /\ \E t \in Trackers : Has(log, "stop", t) /\ monitored_workspaces[t] # {}

\* C19: no tracker is ever inhibited and STOPPED at the same time, at startup,
\* between events, after each call of a handler, during and after cleanup;
\* inhibit_if_visible only sets the flag of a RUNNING tracker, and a stop is
\* only sent to a tracker whose flag is false.
C19_InhibitedImpliesRunning ==
    /\ \A t \in Trackers : ~(inhibit[t] /\ state[t] = STOPPED)
    /\ \A i \in DOMAIN log :
          /\ log[i].t \in Trackers => ~(log[i].inh /\ log[i].st = STOPPED)
          /\ (log[i].op = "inhibit_if_visible" /\ log[i].inh) => log[i].pre = RUNNING
          /\ log[i].op = "stop" => ~log[i].preInh

\* run() has ended with a tracker still inhibited and not visible
C19_Witness ==
    /\ pc = "done"
    /\ \E t \in Trackers :
          /\ inhibit[t] /\ state[t] = RUNNING /\ ~Visible(t)
          /\ \E i \in Signals(log, "cont", t) : log[i].preInh

\* C20: until the cleanup begins the signals issued for one tracker alternate,
\* starting with a stop: a stop is only sent to a RUNNING tracker, a continue
\* only to a STOPPED one, and each signal differs from the one sent to that
\* tracker before it; the cleanup sends a continue to every tracker whatever
\* its state.
C20_SignalsAlternate ==
    [][ \A t \in Trackers :
          /\ ev'.kind # "finally" =>
                \A i \in DOMAIN log' :
                    (IsSignal(log'[i]) /\ log'[i].t = t) =>
                        LET before == LastSignal(SubSeq(log', 1, i - 1), t, lastSig[t])
                        IN /\ log'[i].op = "stop" =>
                                 (log'[i].pre = RUNNING /\ before \in {"none", "cont"})
                           /\ log'[i].op = "cont" =>
                                 (log'[i].pre = STOPPED /\ before = "stop")
          /\ ev'.kind = "finally" => Has(log', "cont", t) ]_vars

\* at the last event one tracker is continued after its stop and another,
\* running until then, is stopped
C20_Witness ==
    /\ pc = "handled"
    /\ nEvents = MaxEvents
    /\ \E t, u \in Trackers :
          /\ \E i \in Signals(log, "cont", t) : log[i].pre = STOPPED
          /\ \E i \in Signals(log, "stop", u) : log[i].pre = RUNNING
          /\ lastSig[t] = "cont" /\ lastSig[u] = "stop"

====
